---- MODULE Spec2Model ----
(***************************************************************************)
(* Model of src/src/rest-router.js: class RESTRouter, its static create,   *)
(* and createRouter with the callback it hands to SequelizeAuto#run.       *)
(*                                                                         *)
(* The model follows one RESTRouter instance, made by the constructor or   *)
(* by the static create.  A "run" is one call of createRouter on it.  The objects a call creates are    *)
(* identified by the number of the call: the SequelizeAuto object (and the *)
(* Sequelize connection it owns), the resources array, the promise, and    *)
(* the express Router made when the caller passes none.                    *)
(*                                                                         *)
(* JavaScript runs one piece of synchronous code at a time: the body of    *)
(* createRouter and the whole callback of auto.run are each uninterrupted. *)
(* The callback is broken into its statements so that the order of the     *)
(* library calls is visible; `executing` keeps any other code from running *)
(* until the callback has returned or thrown.                              *)
(***************************************************************************)
EXTENDS Naturals, Sequences, FiniteSets

(* ---------------------------- bounds ----------------------------------- *)
MaxRuns == 2        \* calls of createRouter on the instance

Runs == 1..MaxRuns
(* the tables the database may hold *)
TableNames == {"users", "orders"}
(* every order in which Object.keys can enumerate a set of distinct keys *)
TableLists ==
  {s \in UNION {[1..n -> TableNames] : n \in 0..Cardinality(TableNames)} :
     \A i, j \in DOMAIN s : i # j => s[i] # s[j]}
Errors == {"ConnectionError", "IntrospectionError"}
NoError == "none"
(* line 204: router = undefined *)
Undefined == 0
(* the express Router or Application the caller owns and may pass in; the
   Router made by call r is r *)
App == MaxRuns + 1
Routers == 1..(MaxRuns + 1)

NoResource == [model |-> [sequelize |-> 0, name |-> "", version |-> 0],
               endpoints |-> <<"", "">>, by |-> 0]
PendingPromise == [state |-> "pending", reason |-> NoError,
                   value |-> [rest |-> "", router |-> 0, resources |-> 0]]

VARIABLES
  constructed,  \* the RESTRouter instance exists
  held,         \* the caller has a reference to the instance
  auto,         \* this.auto: the SequelizeAuto made by call `auto`
  router,       \* this.router
  resources,    \* this.resources: the array made by call `resources`
  arrays,       \* arrays[r]: contents of the array made by call r
  routes,       \* routes[x]: the endpoints bound on router x, in order
  tables,       \* tables[r]: keys of the tables object of call r's SequelizeAuto
  autoError,    \* autoError[r]: the error call r's auto.run gave its callback
  models,       \* models[r][n]: sequelize.models[n] of call r's connection (0: none)
  epilogue,     \* the module-level app and sequelize of the epilogue library
  pc,           \* pc[r]: where call r is
  callRouter,   \* callRouter[r]: the router call r was given or made (line 207)
  promise,      \* promise[r]: the promise call r returned
  keys,         \* keys[r]: the array Object.keys returned at line 217
  idx,          \* idx[r]: position of forEach in keys[r]
  cur,          \* cur[r]: the resource of the current iteration (line 222)
  calls,        \* calls[r]: library calls the callback of r has made
  executing     \* the run whose callback is on the stack, or 0

vars == <<constructed, held, auto, router, resources, arrays, routes, tables,
          autoError, models, epilogue, pc, callRouter, promise, keys, idx,
          cur, calls, executing>>

(* the module is loaded; no instance has been made *)
Init ==
  /\ constructed = FALSE
  /\ held = FALSE
  /\ auto = Undefined
  /\ router = Undefined
  /\ resources = Undefined
  /\ arrays = [r \in Runs |-> <<>>]
  /\ routes = [x \in Routers |-> <<>>]
  /\ tables = [r \in Runs |-> <<>>]
  /\ autoError = [r \in Runs |-> NoError]
  /\ models = [r \in Runs |-> [n \in TableNames |-> 0]]
  /\ epilogue = [app |-> Undefined, sequelize |-> Undefined]
  /\ pc = [r \in Runs |-> "idle"]
  /\ callRouter = [r \in Runs |-> Undefined]
  /\ promise = [r \in Runs |-> PendingPromise]
  /\ keys = [r \in Runs |-> <<>>]
  /\ idx = [r \in Runs |-> 0]
  /\ cur = [r \in Runs |-> NoResource]
  /\ calls = [r \in Runs |-> [initialize |-> 0, define |-> 0, resource |-> 0]]
  /\ executing = 0

(* ------------------------- pure helpers -------------------------------- *)
EndpointsNoId(name) == <<"/" \o name, "/" \o name>>

(* line 221: const endpoints = [`/${name}`, `/${name}/:id`] *)
Endpoints(name) == <<"/" \o name, "/" \o name \o "/:id">>

ErrorGuardNever(error) == FALSE

(* line 211: if (error) *)
ErrorGuard(error) == error # NoError

(* line 207: router ? router : new Router() *)
RouterOrNew(r, rt) == IF rt # Undefined THEN rt ELSE r

LoopNextOffByOne(ks, k) == IF k < Len(ks) THEN "define" ELSE "resolve"

(* forEach, lines 217 and 227: the statement that follows with position k *)
LoopNext(ks, k) == IF k <= Len(ks) THEN "define" ELSE "resolve"

(* a promise settles once: resolve and reject on a settled promise do nothing *)
Settle(p, outcome) == IF p.state = "pending" THEN outcome ELSE p

(* lines 228-232: the object handed to resolve *)
ResolveValue == [rest |-> "restRouter", router |-> router, resources |-> resources]

(* epilogue.resource binds the endpoints of the resource on epilogue's app *)
RouteBindings(res) ==
  <<[path |-> res.endpoints[1], by |-> res.by],
    [path |-> res.endpoints[2], by |-> res.by]>>

(* ------------------------- construction -------------------------------- *)
(* lines 145-160: new RESTRouter(database, user, password, options) *)
Construct ==
  /\ ~constructed
  /\ executing = 0
  /\ constructed' = TRUE
  /\ held' = TRUE
  /\ UNCHANGED <<auto, router, resources, arrays, routes, tables, autoError,
                 models, epilogue, pc, callRouter, promise, keys, idx, cur,
                 calls, executing>>

(* ------------------------- createRouter -------------------------------- *)
(* lines 204-210: the synchronous part of createRouter, as call r *)
CreateRouterBody(r, rt) ==
  /\ pc[r] = "idle"
  /\ executing = 0
  /\ r > 1 => pc[r - 1] # "idle"
  /\ auto' = r
  /\ callRouter' = [callRouter EXCEPT ![r] = RouterOrNew(r, rt)]
  /\ router' = RouterOrNew(r, rt)
  /\ resources' = r
  /\ pc' = [pc EXCEPT ![r] = "introspecting"]
  /\ UNCHANGED <<arrays, routes, tables, autoError, models, epilogue, promise,
                 keys, idx, cur, calls, executing>>

(* rest.createRouter(rt), by a caller that has the instance *)
CreateRouter(r, rt) ==
  /\ constructed
  /\ held
  /\ CreateRouterBody(r, rt)
  /\ UNCHANGED <<constructed, held>>

(* lines 126-128: RESTRouter.create makes the instance and calls createRouter;
   the caller gets the promise only *)
Create(r, rt) ==
  /\ ~constructed
  /\ constructed' = TRUE
  /\ UNCHANGED held
  /\ CreateRouterBody(r, rt)

(* lines 210-211: auto.run finishes its I/O and calls the callback with the
   error e (or none).  The tables object of this SequelizeAuto holds the
   tables read: all of them on success, those read so far on a failure.
   An error rejects and returns; otherwise the callback goes on. *)
Callback(r, e, ts) ==
  /\ pc[r] = "introspecting"
  /\ executing = 0
  /\ autoError' = [autoError EXCEPT ![r] = e]
  /\ tables' = [tables EXCEPT ![r] = ts]
  /\ IF ErrorGuard(e)
       THEN /\ promise' = [promise EXCEPT ![r] =
                 Settle(@, [state |-> "rejected", reason |-> e,
                            value |-> PendingPromise.value])]
            /\ pc' = [pc EXCEPT ![r] = "rejected"]
            /\ UNCHANGED executing
       ELSE /\ pc' = [pc EXCEPT ![r] = "initialize"]
            /\ executing' = r
            /\ UNCHANGED promise
  /\ UNCHANGED <<constructed, held, auto, router, resources, arrays, routes,
                 models, epilogue, callRouter, keys, idx, cur, calls>>

(* an exception leaves the callback: nothing in it catches, and the promise
   executor returned long ago, so neither resolve nor reject is called *)
Throw(r) ==
  /\ pc' = [pc EXCEPT ![r] = "thrown"]
  /\ executing' = 0

(* lines 213-217: epilogue.initialize, then Object.keys of the tables *)
Initialize(r) ==
  /\ pc[r] = "initialize"
  /\ executing = r
  /\ epilogue' = [app |-> router, sequelize |-> auto]
  /\ calls' = [calls EXCEPT ![r].initialize = @ + 1]
  /\ keys' = [keys EXCEPT ![r] = tables[auto]]
  /\ idx' = [idx EXCEPT ![r] = 1]
  /\ pc' = [pc EXCEPT ![r] = LoopNext(tables[auto], 1)]
  /\ UNCHANGED <<constructed, held, auto, router, resources, arrays, routes,
                 tables, autoError, models, callRouter, promise, cur, executing>>

InitializeThrows(r) ==
  /\ pc[r] = "initialize"
  /\ executing = r
  /\ calls' = [calls EXCEPT ![r].initialize = @ + 1]
  /\ Throw(r)
  /\ UNCHANGED <<constructed, held, auto, router, resources, arrays, routes,
                 tables, autoError, models, epilogue, callRouter, promise,
                 keys, idx, cur>>

(* lines 218-219: sequelize.define(name, table) on the instance's connection *)
Define(r) ==
  /\ pc[r] = "define"
  /\ executing = r
  /\ models' = [models EXCEPT ![auto][keys[r][idx[r]]] = @ + 1]
  /\ calls' = [calls EXCEPT ![r].define = @ + 1]
  /\ pc' = [pc EXCEPT ![r] = "resource"]
  /\ UNCHANGED <<constructed, held, auto, router, resources, arrays, routes,
                 tables, autoError, epilogue, callRouter, promise, keys, idx,
                 cur, executing>>

DefineThrows(r) ==
  /\ pc[r] = "define"
  /\ executing = r
  /\ calls' = [calls EXCEPT ![r].define = @ + 1]
  /\ Throw(r)
  /\ UNCHANGED <<constructed, held, auto, router, resources, arrays, routes,
                 tables, autoError, models, epilogue, callRouter, promise,
                 keys, idx, cur>>

(* line 220: const model = restRouter.auto.sequelize.models[name] *)
ModelOf(r) ==
  [sequelize |-> auto, name |-> keys[r][idx[r]],
   version |-> models[auto][keys[r][idx[r]]]]

(* lines 221-225: the resource epilogue builds from model and endpoints *)
NewResource(r) ==
  [model |-> ModelOf(r), endpoints |-> Endpoints(keys[r][idx[r]]), by |-> r]

(* lines 220-225: epilogue.resource binds the endpoints on epilogue's app *)
Resource(r) ==
  /\ pc[r] = "resource"
  /\ executing = r
  /\ cur' = [cur EXCEPT ![r] = NewResource(r)]
  /\ routes' = [routes EXCEPT ![epilogue.app] = @ \o RouteBindings(NewResource(r))]
  /\ calls' = [calls EXCEPT ![r].resource = @ + 1]
  /\ pc' = [pc EXCEPT ![r] = "push"]
  /\ UNCHANGED <<constructed, held, auto, router, resources, arrays, tables,
                 autoError, models, epilogue, callRouter, promise, keys, idx,
                 executing>>

ResourceThrows(r) ==
  /\ pc[r] = "resource"
  /\ executing = r
  /\ calls' = [calls EXCEPT ![r].resource = @ + 1]
  /\ Throw(r)
  /\ UNCHANGED <<constructed, held, auto, router, resources, arrays, routes,
                 tables, autoError, models, epilogue, callRouter, promise,
                 keys, idx, cur>>

(* lines 226-227: restRouter.resources.push(resource); next key *)
Push(r) ==
  /\ pc[r] = "push"
  /\ executing = r
  /\ arrays' = [arrays EXCEPT ![resources] = Append(@, cur[r])]
  /\ cur' = [cur EXCEPT ![r] = NoResource]
  /\ idx' = [idx EXCEPT ![r] = @ + 1]
  /\ pc' = [pc EXCEPT ![r] = LoopNext(keys[r], idx[r] + 1)]
  /\ UNCHANGED <<constructed, held, auto, router, resources, routes, tables,
                 autoError, models, epilogue, callRouter, promise, keys, calls,
                 executing>>

(* lines 228-232: resolve with the instance, its router and its resources;
   the caller can take the instance from the value *)
Resolve(r) ==
  /\ pc[r] = "resolve"
  /\ executing = r
  /\ promise' = [promise EXCEPT ![r] =
       Settle(@, [state |-> "resolved", reason |-> NoError,
                  value |-> ResolveValue])]
  /\ held' = TRUE
  /\ pc' = [pc EXCEPT ![r] = "resolved"]
  /\ executing' = 0
  /\ UNCHANGED <<constructed, auto, router, resources, arrays, routes, tables,
                 autoError, models, epilogue, callRouter, keys, idx, cur, calls>>

Next ==
  \/ Construct
  \/ \E r \in Runs, rt \in {Undefined, App} : CreateRouter(r, rt)
  \/ \E r \in Runs, rt \in {Undefined, App} : Create(r, rt)
  \/ \E r \in Runs, e \in Errors \cup {NoError}, ts \in TableLists :
       Callback(r, e, ts)
  \/ \E r \in Runs : Initialize(r)
  \/ \E r \in Runs : InitializeThrows(r)
  \/ \E r \in Runs : Define(r)
  \/ \E r \in Runs : DefineThrows(r)
  \/ \E r \in Runs : Resource(r)
  \/ \E r \in Runs : ResourceThrows(r)
  \/ \E r \in Runs : Push(r)
  \/ \E r \in Runs : Resolve(r)

Spec == Init /\ [][Next]_vars

(* ------------------------- vocabulary of the claims --------------------- *)
Terminal == {"resolved", "rejected", "thrown"}
Resolved(r) == promise[r].state = "resolved"
(* the resource list a resolved promise carries, as it reads now *)
Delivered(r) == arrays[promise[r].value.resources]
ByRun(seq, r) == {k \in DOMAIN seq : seq[k].by = r}
NoCalls == [initialize |-> 0, define |-> 0, resource |-> 0]

(* C1: a run whose introspection succeeded with N tables ends resolved with
   exactly N resources, one per introspected table in order, and the
   collection paths of those resources are pairwise distinct. *)
C1_ExactlyNResources ==
  \A r \in Runs :
    (pc[r] \in Terminal /\ autoError[r] = NoError) =>
      /\ Resolved(r)
      /\ Len(Delivered(r)) = Len(tables[r])
      /\ \A k \in DOMAIN Delivered(r) : Delivered(r)[k].model.name = tables[r][k]
      /\ \A j, k \in DOMAIN Delivered(r) :
           j # k => Delivered(r)[j].endpoints[1] # Delivered(r)[k].endpoints[1]

(* C2: a run that has ended has its promise settled, resolved or rejected,
   and never left pending, whichever stage failed. *)
C2_ExactlyOneOutcome ==
  \A r \in Runs :
    pc[r] \in Terminal => promise[r].state \in {"resolved", "rejected"}

(* C3: once the callback of a run whose auto.run reported an error has been
   entered, the run is rejected with that error, it has called none of
   epilogue.initialize, sequelize.define and epilogue.resource, it has put no
   resource in any list and bound no route on any router; when it is the
   only call made, the instance's list and every router are empty. *)
C3_IntrospectionErrorRejectsFirst ==
  \A r \in Runs :
    (autoError[r] # NoError /\ pc[r] \notin {"idle", "introspecting"}) =>
      /\ pc[r] = "rejected"
      /\ promise[r].state = "rejected"
      /\ promise[r].reason = autoError[r]
      /\ calls[r] = NoCalls
      /\ cur[r] = NoResource
      /\ \A a \in Runs : ByRun(arrays[a], r) = {}
      /\ \A x \in Routers : ByRun(routes[x], r) = {}
      /\ (\A r2 \in Runs \ {r} : pc[r2] = "idle") =>
            /\ arrays[resources] = <<>>
            /\ \A x \in Routers : routes[x] = <<>>
            /\ epilogue.app = Undefined

(* a run rejected on an introspection error that had already read a table *)
C3_Witness ==
  \E r \in Runs :
    /\ pc[r] = "rejected"
    /\ promise[r].reason \in Errors
    /\ tables[r] # <<>>

(* C4: a run that failed part-way has left none of its resources in the
   instance's resources field and none of its routes on any router. *)
C4_NoPartialResult ==
  \A r \in Runs :
    pc[r] = "thrown" =>
      /\ ByRun(arrays[resources], r) = {}
      /\ \A x \in Routers : ByRun(routes[x], r) = {}

(* C5: two distinct tables of a run with the same generated path make the run
   reject with a PathCollisionError, and no path is ever bound twice on one
   router. *)
C5_NoPathRegisteredTwice ==
  /\ \A r \in Runs :
       (/\ pc[r] \in Terminal
        /\ \E j, k \in DOMAIN tables[r] :
             j # k /\ Endpoints(tables[r][j])[1] = Endpoints(tables[r][k])[1])
       => (promise[r].state = "rejected" /\ promise[r].reason = "PathCollisionError")
  /\ \A x \in Routers : \A j, k \in DOMAIN routes[x] :
       j # k => routes[x][j].path # routes[x][k].path

(* C6: every resource, wherever it is held, has the collection path /{name}
   and the item path /{name}/:id of its own model's table name, and every
   router carries those two paths, in that order, for each resource bound on
   it: whatever the other tables, their order, the run and the router. *)
C6_EndpointsFromNameAlone ==
  /\ \A a \in Runs : \A k \in DOMAIN arrays[a] :
       arrays[a][k].endpoints =
         <<"/" \o arrays[a][k].model.name, "/" \o arrays[a][k].model.name \o "/:id">>
  /\ \A r \in Runs :
       cur[r] # NoResource =>
         cur[r].endpoints = <<"/" \o keys[r][idx[r]], "/" \o keys[r][idx[r]] \o "/:id">>
  /\ \A x \in Routers : \A k \in DOMAIN routes[x] :
       IF k % 2 = 1
         THEN \E n \in TableNames : routes[x][k].path = "/" \o n
         ELSE routes[x][k].path = routes[x][k - 1].path \o "/:id"

(* two resolved runs that enumerated the same two tables in opposite orders,
   one on a router of the caller and one on a router of its own *)
C6_Witness ==
  \E r1, r2 \in Runs :
    /\ Resolved(r1) /\ Resolved(r2)
    /\ Len(Delivered(r1)) = 2 /\ Len(Delivered(r2)) = 2
    /\ Delivered(r1)[1].model.name = Delivered(r2)[2].model.name
    /\ Delivered(r1)[1].endpoints = Delivered(r2)[2].endpoints
    /\ promise[r1].value.router = App
    /\ promise[r2].value.router # App

(* C7: at the step that resolves a run, the router delivered is the router
   the call was given (or the one made for it), it is the app epilogue was
   initialized with, and the run has bound its routes on no other router. *)
C7_DeliveredRouterIsGivenOrNew ==
  [][\A r \in Runs :
       (~Resolved(r) /\ Resolved(r)') =>
         /\ promise'[r].value.router = callRouter[r]
         /\ promise'[r].value.router = epilogue.app
         /\ \A x \in Routers \ {callRouter[r]} : ByRun(routes[x], r) = {}]_vars

(* C8: a resolved run's list holds each table once, each resource's model is
   the handle its connection now holds for that name, and the delivered
   router carries that table's collection path once. *)
C8_OneHandleOneResourceOneRoute ==
  \A r \in Runs :
    Resolved(r) =>
      /\ \A j, k \in DOMAIN Delivered(r) :
           j # k => Delivered(r)[j].model.name # Delivered(r)[k].model.name
      /\ \A k \in DOMAIN Delivered(r) :
           Delivered(r)[k].model.version =
             models[Delivered(r)[k].model.sequelize][Delivered(r)[k].model.name]
      /\ \A k \in DOMAIN Delivered(r) :
           Cardinality({j \in DOMAIN routes[promise[r].value.router] :
              routes[promise[r].value.router][j].path = Delivered(r)[k].endpoints[1]}) = 1

(* the stages of the design, ranked in their order *)
Rank(p) ==
  CASE p = "idle" -> 0
    [] p \in {"introspecting", "initialize"} -> 1
    [] p = "define" -> 2
    [] p = "resource" -> 3
    [] p = "push" -> 4
    [] p \in {"resolve", "resolved"} -> 5
    [] p \in {"rejected", "thrown"} -> 6

(* C9 as stated: no step takes a run back to an earlier stage. *)
C9_StagesOnlyForward ==
  [][\A r \in Runs : Rank(pc'[r]) >= Rank(pc[r])]_vars

(* what holds of the order of a run's work in every state *)
StageOrder ==
  \A r \in Runs :
    /\ calls[r] # NoCalls => pc[r] \notin {"idle", "introspecting"}
    /\ calls[r].resource <= calls[r].define
    /\ pc[r] = "resource" => models[auto][keys[r][idx[r]]] >= 1
    /\ cur[r] # NoResource => cur[r].model.version >= 1
    /\ \A a \in Runs : \A k \in ByRun(arrays[a], r) :
         arrays[a][k].model.version >= 1 /\ calls[r].define >= 1
    /\ Resolved(r) =>
         /\ idx[r] = Len(keys[r]) + 1
         /\ \A k \in DOMAIN keys[r] :
              \E j \in ByRun(Delivered(r), r) : Delivered(r)[j].model.name = keys[r][k]

(* C9 (amended): a run goes forward through the stages, except that after
   assembling one table it returns to registering for the next one; nothing
   is registered or synthesized before the run's introspection has returned,
   no resource is synthesized before its model is registered, and a run is
   resolved only when every enumerated table has its resource in the list. *)
C9_ForwardPerTable ==
  [][/\ \A r \in Runs :
          \/ Rank(pc'[r]) >= Rank(pc[r])
          \/ pc[r] = "push" /\ pc'[r] = "define" /\ idx'[r] = idx[r] + 1
     /\ StageOrder']_vars

(* a resolved run that registered, synthesized and assembled two tables *)
C9_Witness ==
  \E r \in Runs :
    /\ Resolved(r)
    /\ Len(keys[r]) = 2
    /\ Cardinality(ByRun(Delivered(r), r)) = 2
    /\ calls[r] = [initialize |-> 1, define |-> 2, resource |-> 2]

(* C10: a resolved run whose instance has seen another call carries
   the router of its own call, the array of its own call, and in it the
   resources of its own introspection result, built on its own connection. *)
C10_NoLeakBetweenCalls ==
  \A r \in Runs :
    (Resolved(r) /\ \E r2 \in Runs \ {r} : pc[r2] # "idle") =>
      /\ promise[r].value.router = callRouter[r]
      /\ promise[r].value.resources = r
      /\ Len(Delivered(r)) = Len(tables[r])
      /\ \A k \in DOMAIN Delivered(r) :
           /\ Delivered(r)[k].model.name = tables[r][k]
           /\ Delivered(r)[k].model.sequelize = r

====
